---- MODULE Spec2Model ----
(***************************************************************************)
(* State-machine model of scripts/hydro_analytics.py: HydroKafkaTester     *)
(* (create_topics, test_batch_linger, test_compression, test_partitioning, *)
(* generate_report) and main().                                            *)
(*                                                                         *)
(* Time is counted in clock ticks of one millisecond.  A float of the      *)
(* program is modelled as an exact fraction <<num, den>>.                  *)
(***************************************************************************)
EXTENDS Integers, Sequences, FiniteSets, TLC

VARIABLES
    existing,            \* broker: names of the topics that exist
    tIdx,                \* create_topics: index of the topic being attempted
    outcomes,            \* create_topics: what was printed for each topic so far
    calls,               \* number of create_topics calls that returned
    file,                \* hydro_test_1000.json: [exists, lines]; a line is a record
    ackDelay,            \* broker: ticks the k-th record of the file takes to be acknowledged
    idleFlush,           \* ticks a run's clock adds when flush() has nothing to wait for
    pc,                  \* position of the program
    cfg,                 \* index of the configuration of the running sweep
    records,             \* local `records`
    k,                   \* number of records the running loop has submitted
    pending,             \* producer: records submitted and not yet acknowledged
    latencies,           \* local `latencies`
    results,             \* local `results`
    original_size,       \* local `original_size` of test_compression
    baseline_throughput, \* local `baseline_throughput` of test_partitioning
    test_results,        \* self.test_results
    producers,           \* producer sessions opened and not closed
    exc,                 \* exception that ended the invocation: its type, and where it was raised
    reportCalled         \* generate_report was invoked

vars == <<existing, tIdx, outcomes, calls, file, ackDelay, idleFlush, pc, cfg,
          records, k, pending, latencies, results, original_size,
          baseline_throughput, test_results, producers, exc, reportCalled>>

(***************************************************************************)
(* Bounds of the model.                                                    *)
(***************************************************************************)
MaxRecords == 2        \* lines of the workload file (main)
MaxDelay == 1          \* ticks one acknowledgment takes (main)
MaxFlush == 3          \* ticks one flush() takes
MaxCalls == 2          \* create_topics calls against one broker
MaxSamples == 22       \* lines of the workload file (test_batch_linger alone)
MaxOriginalSize == 400 \* bytes of the record (test_compression alone)

RecSizes == {60, 120}  \* serialized lengths of a record (main)
DelaySteps == {1, 3, 7}
DelayMods == {1, 5, 23}

(***************************************************************************)
(* Program constants.                                                      *)
(***************************************************************************)
BatchSample == 1000
CompSample == 3000
PartSample == 4000

Topics ==
    << [name |-> "hydro-main", num_partitions |-> 4],
       [name |-> "hydro-batch-test", num_partitions |-> 3],
       [name |-> "hydro-comp-none", num_partitions |-> 3],
       [name |-> "hydro-comp-snappy", num_partitions |-> 3],
       [name |-> "hydro-comp-lz4", num_partitions |-> 3],
       [name |-> "hydro-comp-zstd", num_partitions |-> 3],
       [name |-> "hydro-part-2", num_partitions |-> 2],
       [name |-> "hydro-part-4", num_partitions |-> 4],
       [name |-> "hydro-part-8", num_partitions |-> 8],
       [name |-> "hydro-analytics", num_partitions |-> 8] >>

TopicNames == {Topics[i].name : i \in 1..Len(Topics)}

BatchConfigs ==
    << <<16384, 0>>, <<65536, 10>>, <<262144, 50>>,
       <<524288, 100>>, <<1048576, 200>>, <<1048576, 500>> >>

Algorithms == <<"none", "snappy", "lz4", "zstd">>

PartitionCounts == <<2, 4, 8>>

(***************************************************************************)
(* Python helpers.                                                         *)
(***************************************************************************)
NoValue == <<>>      \* None

NoException == [type |-> "none", at |-> "none"]

NoFile == [exists |-> FALSE, lines |-> <<>>]

Min(a, b) == IF a <= b THEN a ELSE b

\* s[:n]
Prefix(s, n) == SubSeq(s, 1, Min(n, Len(s)))

RECURSIVE Sum(_)
Sum(s) == IF s = <<>> THEN 0 ELSE Head(s) + Sum(Tail(s))

RECURSIVE Insert(_, _)
Insert(x, s) ==
    IF s = <<>> THEN <<x>>
    ELSE IF x <= Head(s) THEN <<x>> \o s
    ELSE <<Head(s)>> \o Insert(x, Tail(s))

\* sorted(s)
RECURSIVE Sorted(_)
Sorted(s) == IF s = <<>> THEN <<>> ELSE Insert(Head(s), Sorted(Tail(s)))

\* a / b of two floats
RatDiv(a, b) == <<a[1] * b[2], a[2] * b[1]>>

RatEq(a, b) == a[1] * b[2] = b[1] * a[2]

RatLe(a, b) == a[1] * b[2] <= b[1] * a[2]

(***************************************************************************)
(* Metrics.                                                                *)
(***************************************************************************)
\* end - start, in seconds, of a run that took `ticks` milliseconds
Duration(ticks) == <<ticks, 1000>>

\* len(records) / duration
Throughput(n, ticks) == RatDiv(<<n, 1>>, Duration(ticks))

\* statistics.mean(latencies)
Mean(lat) == <<Sum(lat), Len(lat)>>

\* int(len(latencies) * 0.95), int(len(latencies) * 0.99): pct is 95 or 99.
\* The double product truncates to floor(n * pct / 100) for every n up to 200000.
PercentileIndex(n, pct) == (n * pct) \div 100

\* Percentile without the sort.
PercentileUnsorted(lat, pct) == lat[PercentileIndex(Len(lat), pct) + 1]

\* sorted(latencies)[int(len(latencies) * pct / 100)], Python's index from 0
Percentile(lat, pct) == Sorted(lat)[PercentileIndex(Len(lat), pct) + 1]

\* compression_factors.get(algo, 1.0), in hundredths
CompressionFactor(algo) ==
    CASE algo = "snappy" -> 40
      [] algo = "lz4" -> 35
      [] algo = "zstd" -> 25
      [] OTHER -> 100

\* The sizes below 2000 whose double product with 0.35 (the double nearest to
\* 0.35 lies below it) rounds to a double just under the integer size * 0.35.
\* The products with 0.40 and 0.25 have no such size.
RoundsBelow35 ==
    {180, 340, 360, 660, 680, 700, 720, 1300, 1320, 1340, 1360, 1380, 1400,
     1420, 1440, 1460}

\* int(original_size * factor), the product taken in double precision
IntOfProduct(size, factor) ==
    IF factor = 35 /\ size \in RoundsBelow35
    THEN (size * factor) \div 100 - 1
    ELSE (size * factor) \div 100

\* CompressedSize rounding to the nearest byte instead of truncating.
CompressedSizeRounded(size, algo) ==
    IF algo = "none" THEN size
    ELSE (size * CompressionFactor(algo) + 50) \div 100

\* compressed_size of lines 165-174
CompressedSize(size, algo) ==
    IF algo = "none" THEN size
    ELSE IntOfProduct(size, CompressionFactor(algo))

\* ratio of lines 167 and 175: 0.0, or (1 - compressed_size / original_size) * 100
CompressionRatio(size, algo) ==
    IF algo = "none" THEN <<0, 1>>
    ELSE <<(size - CompressedSize(size, algo)) * 100, size>>

BatchResult(c, n, lat, ticks) ==
    [batch_size |-> BatchConfigs[c][1],
     linger_ms |-> BatchConfigs[c][2],
     throughput |-> Throughput(n, ticks),
     avg_latency |-> Mean(lat),
     p95_latency |-> Percentile(lat, 95),
     p99_latency |-> Percentile(lat, 99),
     duration |-> Duration(ticks)]

CompResult(c, n, lat, ticks, size) ==
    [algorithm |-> Algorithms[c],
     throughput |-> Throughput(n, ticks),
     avg_latency |-> Mean(lat),
     original_size_mb |-> <<size, 1048576>>,
     compressed_size_mb |-> <<CompressedSize(size, Algorithms[c]), 1048576>>,
     compression_ratio |-> CompressionRatio(size, Algorithms[c]),
     network_saved_mb |-> <<size - CompressedSize(size, Algorithms[c]), 1048576>>]

\* scaling_factor of lines 236-240
ScalingFactor(baseline, throughput) ==
    IF baseline = NoValue THEN <<1, 1>> ELSE RatDiv(throughput, baseline)

\* NextBaseline taking every run's throughput as the new baseline.
OverwriteBaseline(baseline, throughput) == throughput

\* baseline_throughput after lines 236-240
NextBaseline(baseline, throughput) ==
    IF baseline = NoValue THEN throughput ELSE baseline

PartResult(c, n, ticks, baseline) ==
    [partitions |-> PartitionCounts[c],
     throughput |-> Throughput(n, ticks),
     duration |-> Duration(ticks),
     scaling_factor |-> ScalingFactor(baseline, Throughput(n, ticks))]

(***************************************************************************)
(* An exception that leaves a test method is caught by main's except       *)
(* clauses (lines 311-315), which print and return.                        *)
(***************************************************************************)
Raise(e) == exc' = [type |-> e, at |-> pc] /\ pc' = "failed"

(***************************************************************************)
(* create_topics (lines 20-49).                                            *)
(***************************************************************************)
\* CreateTopic with TopicAlreadyExistsError not caught.
CreateTopicStrict ==
    /\ pc = "create_topics"
    /\ tIdx <= Len(Topics)
    /\ \/ /\ Topics[tIdx].name \notin existing
          /\ existing' = existing \cup {Topics[tIdx].name}
          /\ outcomes' = Append(outcomes, "Created")
          /\ tIdx' = tIdx + 1
          /\ UNCHANGED <<pc, exc>>
       \/ /\ Topics[tIdx].name \in existing
          /\ exc' = [type |-> "TopicAlreadyExistsError", at |-> pc]
          /\ pc' = "crashed"
          /\ UNCHANGED <<existing, outcomes, tIdx>>
    /\ UNCHANGED <<calls, file, ackDelay, idleFlush, cfg, records, k, pending,
                   latencies, results, original_size, baseline_throughput,
                   test_results, producers, reportCalled>>

CreateTopic ==
    /\ pc = "create_topics"
    /\ tIdx <= Len(Topics)
    /\ \/ /\ Topics[tIdx].name \notin existing
          /\ existing' = existing \cup {Topics[tIdx].name}
          /\ outcomes' = Append(outcomes, "Created")
       \/ /\ Topics[tIdx].name \in existing
          /\ existing' = existing
          /\ outcomes' = Append(outcomes, "AlreadyExists")
    /\ tIdx' = tIdx + 1
    /\ UNCHANGED <<calls, file, ackDelay, idleFlush, pc, cfg, records, k, pending,
                   latencies, results, original_size, baseline_throughput,
                   test_results, producers, exc, reportCalled>>

\* Any other error of admin.create_topics is not caught: not by create_topics and
\* not by main, which calls it outside its try.
AdminError ==
    /\ pc = "create_topics"
    /\ tIdx <= Len(Topics)
    /\ exc' = [type |-> "KafkaError", at |-> pc]
    /\ pc' = "crashed"
    /\ UNCHANGED <<existing, tIdx, outcomes, calls, file, ackDelay, idleFlush, cfg,
                   records, k, pending, latencies, results, original_size,
                   baseline_throughput, test_results, producers, reportCalled>>

AdminClose ==
    /\ pc = "create_topics"
    /\ tIdx = Len(Topics) + 1
    /\ pc' = "provisioned"
    /\ calls' = calls + 1
    /\ UNCHANGED <<existing, tIdx, outcomes, file, ackDelay, idleFlush, cfg, records,
                   k, pending, latencies, results, original_size,
                   baseline_throughput, test_results, producers, exc, reportCalled>>

\* A further call of create_topics against the same broker.
CreateTopicsAgain ==
    /\ pc = "provisioned"
    /\ calls < MaxCalls
    /\ pc' = "create_topics"
    /\ tIdx' = 1
    /\ outcomes' = <<>>
    /\ UNCHANGED <<existing, calls, file, ackDelay, idleFlush, cfg, records, k,
                   pending, latencies, results, original_size, baseline_throughput,
                   test_results, producers, exc, reportCalled>>

(***************************************************************************)
(* The broker acknowledges a submitted record (the producer's I/O thread   *)
(* completes its future).                                                  *)
(***************************************************************************)
Running ==
    pc \in {"batch_send", "batch_get", "comp_send", "comp_get", "part_send"}

BrokerAck ==
    /\ Running
    /\ \E r \in pending : pending' = pending \ {r}
    /\ UNCHANGED <<existing, tIdx, outcomes, calls, file, ackDelay, idleFlush, pc, cfg,
                   records, k, latencies, results, original_size,
                   baseline_throughput, test_results, producers, exc, reportCalled>>

provVars == <<existing, tIdx, outcomes, calls>>

envVars == <<file, ackDelay, idleFlush>>

(***************************************************************************)
(* main (lines 296-309): the calls between the test methods.               *)
(***************************************************************************)
\* lines 300-303: time.sleep(3), then test_batch_linger is entered (56-65)
CallBatchLinger ==
    /\ pc = "provisioned"
    /\ pc' = "batch_open"
    /\ cfg' = 1
    /\ results' = <<>>
    /\ UNCHANGED <<provVars, envVars, records, k, pending, latencies, original_size,
                   baseline_throughput, test_results, producers, exc, reportCalled>>

\* line 304
CallCompression ==
    /\ pc = "batch_returned"
    /\ pc' = "comp_read"
    /\ UNCHANGED <<provVars, envVars, cfg, records, k, pending, latencies, results,
                   original_size, baseline_throughput, test_results, producers, exc,
                   reportCalled>>

\* line 305
CallPartitioning ==
    /\ pc = "comp_returned"
    /\ pc' = "part_read"
    /\ UNCHANGED <<provVars, envVars, cfg, records, k, pending, latencies, results,
                   original_size, baseline_throughput, test_results, producers, exc,
                   reportCalled>>

\* lines 307-309: generate_report only reads test_results
GenerateReport ==
    /\ pc = "part_returned"
    /\ reportCalled' = TRUE
    /\ pc' = "done"
    /\ UNCHANGED <<provVars, envVars, cfg, records, k, pending, latencies, results,
                   original_size, baseline_throughput, test_results, producers, exc>>

(***************************************************************************)
(* test_batch_linger (lines 51-119).                                       *)
(***************************************************************************)
\* lines 67-76
BatchOpen ==
    /\ pc = "batch_open"
    /\ producers' = producers \cup {<<"batch_linger", cfg>>}
    /\ pc' = "batch_read"
    /\ UNCHANGED <<provVars, envVars, cfg, records, k, pending, latencies, results,
                   original_size, baseline_throughput, test_results, exc, reportCalled>>

\* lines 78-82
BatchRead ==
    /\ pc = "batch_read"
    /\ \/ /\ ~file.exists
          /\ Raise("FileNotFoundError")
          /\ UNCHANGED <<records, latencies, k>>
       \/ /\ file.exists
          /\ records' = file.lines
          /\ latencies' = <<>>
          /\ k' = 0
          /\ pc' = "batch_send"
          /\ exc' = exc
    /\ UNCHANGED <<provVars, envVars, cfg, pending, results, original_size,
                   baseline_throughput, test_results, producers, reportCalled>>

\* lines 84-86: the next record of records[:1000] is submitted
BatchSend ==
    /\ pc = "batch_send"
    /\ k < Len(Prefix(records, BatchSample))
    /\ k' = k + 1
    /\ pending' = pending \cup {k + 1}
    /\ pc' = "batch_get"
    /\ UNCHANGED <<provVars, envVars, cfg, records, latencies, results, original_size,
                   baseline_throughput, test_results, producers, exc, reportCalled>>

\* BatchGet without the wait: the result is taken before the acknowledgment.
BatchGetNoWait ==
    /\ pc = "batch_get"
    /\ latencies' = Append(latencies, ackDelay[k])
    /\ pc' = "batch_send"
    /\ UNCHANGED <<provVars, envVars, cfg, records, k, pending, results, original_size,
                   baseline_throughput, test_results, producers, exc, reportCalled>>

\* BatchGet with the sample put in front of the list.
BatchGetPrepend ==
    /\ pc = "batch_get"
    /\ k \notin pending
    /\ latencies' = <<ackDelay[k]>> \o latencies
    /\ pc' = "batch_send"
    /\ UNCHANGED <<provVars, envVars, cfg, records, k, pending, results, original_size,
                   baseline_throughput, test_results, producers, exc, reportCalled>>

\* lines 87-88: future.get returns once the record is acknowledged
BatchGet ==
    /\ pc = "batch_get"
    /\ k \notin pending
    /\ latencies' = Append(latencies, ackDelay[k])
    /\ pc' = "batch_send"
    /\ UNCHANGED <<provVars, envVars, cfg, records, k, pending, results, original_size,
                   baseline_throughput, test_results, producers, exc, reportCalled>>

\* line 87: no acknowledgment within 10 seconds, future.get raises
BatchTimeout ==
    /\ pc = "batch_get"
    /\ k \in pending
    /\ Raise("KafkaTimeoutError")
    /\ UNCHANGED <<provVars, envVars, cfg, records, k, pending, latencies, results,
                   original_size, baseline_throughput, test_results, producers,
                   reportCalled>>

\* lines 90-113: flush() returns when nothing is pending; then the reduction.
\* Between `start` and `end` the clock advances by the waits of the run and by
\* idleFlush.
\* len(records[:1000]) / duration raises on a zero duration, statistics.mean on
\* an empty list.
BatchReduce ==
    /\ pc = "batch_send"
    /\ k = Len(Prefix(records, BatchSample))
    /\ pending = {}
    /\ LET ticks == Sum(latencies) + idleFlush
       IN \/ /\ ticks = 0
             /\ Raise("ZeroDivisionError")
             /\ results' = results
          \/ /\ ticks > 0
             /\ latencies = <<>>
             /\ Raise("StatisticsError")
             /\ results' = results
          \/ /\ ticks > 0
             /\ latencies # <<>>
             /\ results' = Append(results, BatchResult(cfg, k, latencies, ticks))
             /\ pc' = "batch_close"
             /\ exc' = exc
    /\ UNCHANGED <<provVars, envVars, cfg, records, k, pending, latencies,
                   original_size, baseline_throughput, test_results, producers,
                   reportCalled>>

\* lines 115-116, and the loop's next configuration
BatchClose ==
    /\ pc = "batch_close"
    /\ producers' = producers \ {<<"batch_linger", cfg>>}
    /\ \/ /\ cfg < Len(BatchConfigs)
          /\ cfg' = cfg + 1
          /\ pc' = "batch_open"
       \/ /\ cfg = Len(BatchConfigs)
          /\ cfg' = cfg
          /\ pc' = "batch_store"
    /\ UNCHANGED <<provVars, envVars, records, k, pending, latencies, results,
                   original_size, baseline_throughput, test_results, exc, reportCalled>>

\* lines 118-119
BatchStore ==
    /\ pc = "batch_store"
    /\ test_results' = ("batch_linger" :> results) @@ test_results
    /\ pc' = "batch_returned"
    /\ UNCHANGED <<provVars, envVars, cfg, records, k, pending, latencies, results,
                   original_size, baseline_throughput, producers, exc, reportCalled>>

(***************************************************************************)
(* test_compression (lines 121-196).                                       *)
(***************************************************************************)
\* lines 126-132
CompRead ==
    /\ pc = "comp_read"
    /\ \/ /\ ~file.exists
          /\ Raise("FileNotFoundError")
          /\ UNCHANGED <<records, original_size, results, cfg, latencies>>
       \/ /\ file.exists
          /\ records' = Prefix(file.lines, CompSample)
          /\ original_size' = Sum(Prefix(file.lines, CompSample))
          /\ results' = <<>>
          /\ latencies' = <<>>
          /\ cfg' = 1
          /\ pc' = "comp_open"
          /\ exc' = exc
    /\ UNCHANGED <<provVars, envVars, k, pending, baseline_throughput, test_results,
                   producers, reportCalled>>

\* lines 134-154
CompOpen ==
    /\ pc = "comp_open"
    /\ producers' = producers \cup {<<"compression", cfg>>}
    /\ latencies' = <<>>
    /\ k' = 0
    /\ pc' = "comp_send"
    /\ UNCHANGED <<provVars, envVars, cfg, records, pending, results, original_size,
                   baseline_throughput, test_results, exc, reportCalled>>

\* lines 155-157
CompSend ==
    /\ pc = "comp_send"
    /\ k < Len(records)
    /\ k' = k + 1
    /\ pending' = pending \cup {k + 1}
    /\ pc' = "comp_get"
    /\ UNCHANGED <<provVars, envVars, cfg, records, latencies, results, original_size,
                   baseline_throughput, test_results, producers, exc, reportCalled>>

\* lines 158-159
CompGet ==
    /\ pc = "comp_get"
    /\ k \notin pending
    /\ latencies' = Append(latencies, ackDelay[k])
    /\ pc' = "comp_send"
    /\ UNCHANGED <<provVars, envVars, cfg, records, k, pending, results, original_size,
                   baseline_throughput, test_results, producers, exc, reportCalled>>

\* line 158
CompTimeout ==
    /\ pc = "comp_get"
    /\ k \in pending
    /\ Raise("KafkaTimeoutError")
    /\ UNCHANGED <<provVars, envVars, cfg, records, k, pending, latencies, results,
                   original_size, baseline_throughput, test_results, producers,
                   reportCalled>>

\* lines 160-191
CompReduce ==
    /\ pc = "comp_send"
    /\ k = Len(records)
    /\ pending = {}
    /\ LET ticks == Sum(latencies) + idleFlush
       IN \/ /\ ticks = 0
             /\ Raise("ZeroDivisionError")
             /\ results' = results
          \/ /\ ticks > 0
             /\ latencies = <<>>
             /\ Raise("StatisticsError")
             /\ results' = results
          \/ /\ ticks > 0
             /\ latencies # <<>>
             /\ results' = Append(results,
                                  CompResult(cfg, k, latencies, ticks, original_size))
             /\ pc' = "comp_close"
             /\ exc' = exc
    /\ UNCHANGED <<provVars, envVars, cfg, records, k, pending, latencies,
                   original_size, baseline_throughput, test_results, producers,
                   reportCalled>>

\* CompClose with line 195 indented into the loop: the results so far are
\* stored after every run.
CompCloseStoring ==
    /\ pc = "comp_close"
    /\ producers' = producers \ {<<"compression", cfg>>}
    /\ test_results' = ("compression" :> results) @@ test_results
    /\ \/ /\ cfg < Len(Algorithms)
          /\ cfg' = cfg + 1
          /\ pc' = "comp_open"
       \/ /\ cfg = Len(Algorithms)
          /\ cfg' = cfg
          /\ pc' = "comp_store"
    /\ UNCHANGED <<provVars, envVars, records, k, pending, latencies, results,
                   original_size, baseline_throughput, exc, reportCalled>>

\* lines 192-193, and the loop's next algorithm
CompClose ==
    /\ pc = "comp_close"
    /\ producers' = producers \ {<<"compression", cfg>>}
    /\ \/ /\ cfg < Len(Algorithms)
          /\ cfg' = cfg + 1
          /\ pc' = "comp_open"
       \/ /\ cfg = Len(Algorithms)
          /\ cfg' = cfg
          /\ pc' = "comp_store"
    /\ UNCHANGED <<provVars, envVars, records, k, pending, latencies, results,
                   original_size, baseline_throughput, test_results, exc, reportCalled>>

\* lines 195-196
CompStore ==
    /\ pc = "comp_store"
    /\ test_results' = ("compression" :> results) @@ test_results
    /\ pc' = "comp_returned"
    /\ UNCHANGED <<provVars, envVars, cfg, records, k, pending, latencies, results,
                   original_size, baseline_throughput, producers, exc, reportCalled>>

(***************************************************************************)
(* test_partitioning (lines 198-258).                                      *)
(***************************************************************************)
\* lines 203-209; the method has no list of latencies
PartRead ==
    /\ pc = "part_read"
    /\ \/ /\ ~file.exists
          /\ Raise("FileNotFoundError")
          /\ UNCHANGED <<records, results, cfg, latencies, baseline_throughput>>
       \/ /\ file.exists
          /\ records' = Prefix(file.lines, PartSample)
          /\ results' = <<>>
          /\ latencies' = <<>>
          /\ baseline_throughput' = NoValue
          /\ cfg' = 1
          /\ pc' = "part_open"
          /\ exc' = exc
    /\ UNCHANGED <<provVars, envVars, k, pending, original_size, test_results,
                   producers, reportCalled>>

\* lines 211-224
PartOpen ==
    /\ pc = "part_open"
    /\ producers' = producers \cup {<<"partitioning", cfg>>}
    /\ k' = 0
    /\ pc' = "part_send"
    /\ UNCHANGED <<provVars, envVars, cfg, records, pending, latencies, results,
                   original_size, baseline_throughput, test_results, exc, reportCalled>>

\* lines 226-228: the record is submitted and its future is dropped
PartSend ==
    /\ pc = "part_send"
    /\ k < Len(records)
    /\ k' = k + 1
    /\ pending' = pending \cup {k + 1}
    /\ UNCHANGED <<provVars, envVars, pc, cfg, records, latencies, results,
                   original_size, baseline_throughput, test_results, producers, exc,
                   reportCalled>>

\* lines 230-252: flush() returns when nothing is pending, after `flush` ticks
PartReduce ==
    /\ pc = "part_send"
    /\ k = Len(records)
    /\ pending = {}
    /\ \E flush \in 0..MaxFlush :
          \/ /\ flush = 0
             /\ Raise("ZeroDivisionError")
             /\ UNCHANGED <<results, baseline_throughput>>
          \/ /\ flush > 0
             /\ baseline_throughput # NoValue
             /\ baseline_throughput[1] = 0
             /\ Raise("ZeroDivisionError")
             /\ UNCHANGED <<results, baseline_throughput>>
          \/ /\ flush > 0
             /\ baseline_throughput # NoValue => baseline_throughput[1] # 0
             /\ baseline_throughput' =
                   NextBaseline(baseline_throughput, Throughput(k, flush))
             /\ results' = Append(results,
                                  PartResult(cfg, k, flush, baseline_throughput))
             /\ pc' = "part_close"
             /\ exc' = exc
    /\ UNCHANGED <<provVars, envVars, cfg, records, k, pending, latencies,
                   original_size, test_results, producers, reportCalled>>

\* lines 254-255, and the loop's next partition count
PartClose ==
    /\ pc = "part_close"
    /\ producers' = producers \ {<<"partitioning", cfg>>}
    /\ \/ /\ cfg < Len(PartitionCounts)
          /\ cfg' = cfg + 1
          /\ pc' = "part_open"
       \/ /\ cfg = Len(PartitionCounts)
          /\ cfg' = cfg
          /\ pc' = "part_store"
    /\ UNCHANGED <<provVars, envVars, records, k, pending, latencies, results,
                   original_size, baseline_throughput, test_results, exc, reportCalled>>

\* lines 257-258
PartStore ==
    /\ pc = "part_store"
    /\ test_results' = ("partitioning" :> results) @@ test_results
    /\ pc' = "part_returned"
    /\ UNCHANGED <<provVars, envVars, cfg, records, k, pending, latencies, results,
                   original_size, baseline_throughput, producers, exc, reportCalled>>

(***************************************************************************)
(* Specifications.                                                         *)
(***************************************************************************)
SeqsUpTo(S, n) == UNION {[1..m -> S] : m \in 0..n}

Workload(lines) == [exists |-> TRUE, lines |-> lines]

\* After HydroKafkaTester() (lines 16-18): nothing run, nothing stored.
Constructed ==
    /\ tIdx = 1
    /\ outcomes = <<>>
    /\ calls = 0
    /\ cfg = 0
    /\ records = <<>>
    /\ k = 0
    /\ pending = {}
    /\ latencies = <<>>
    /\ results = <<>>
    /\ original_size = 0
    /\ baseline_throughput = NoValue
    /\ test_results = <<>>
    /\ producers = {}
    /\ exc = NoException
    /\ reportCalled = FALSE

\* main(): a broker with none or all of the topics, a workload file that is
\* missing or holds up to MaxRecords records.  The broker's delay for a record
\* and the clock's overhead per run are those of the invocation, the same in
\* every run; what a flush() of the partitioning sweep takes differs per run.
Init ==
    /\ Constructed
    /\ pc = "create_topics"
    /\ existing \in {{}, TopicNames}
    /\ file \in {NoFile} \cup {Workload(l) : l \in SeqsUpTo(RecSizes, MaxRecords)}
    /\ ackDelay \in [1..Len(file.lines) -> 0..MaxDelay]
    /\ idleFlush \in 0..MaxDelay

Next ==
    \/ CreateTopic \/ AdminError \/ AdminClose
    \/ CallBatchLinger \/ CallCompression \/ CallPartitioning \/ GenerateReport
    \/ BatchOpen \/ BatchRead \/ BatchSend \/ BatchGet \/ BatchTimeout
    \/ BatchReduce \/ BatchClose \/ BatchStore
    \/ CompRead \/ CompOpen \/ CompSend \/ CompGet \/ CompTimeout
    \/ CompReduce \/ CompClose \/ CompStore
    \/ PartRead \/ PartOpen \/ PartSend \/ PartReduce \/ PartClose \/ PartStore
    \/ BrokerAck

Spec == Init /\ [][Next]_vars

\* create_topics called up to MaxCalls times against a broker with any of the topics.
InitProvision ==
    /\ Constructed
    /\ pc = "create_topics"
    /\ existing \in SUBSET TopicNames
    /\ file = NoFile
    /\ ackDelay = <<>>
    /\ idleFlush = 0

NextProvision == CreateTopic \/ AdminError \/ AdminClose \/ CreateTopicsAgain

SpecProvision == InitProvision /\ [][NextProvision]_vars

\* test_batch_linger on a new tester and a provisioned broker, the workload file holding up to MaxSamples
\* records whose acknowledgments take (i * step) % mod ticks.
InitBatch ==
    /\ Constructed
    /\ pc = "provisioned"
    /\ existing = TopicNames
    /\ \E n \in 0..MaxSamples, step \in DelaySteps, mod \in DelayMods :
          /\ file \in {NoFile, Workload([i \in 1..n |-> 60])}
          /\ ackDelay = [i \in 1..Len(file.lines) |-> (i * step) % mod]
    /\ idleFlush \in 0..1

NextBatch ==
    \/ CallBatchLinger
    \/ BatchOpen \/ BatchRead \/ BatchSend \/ BatchGet \/ BatchTimeout
    \/ BatchReduce \/ BatchClose \/ BatchStore \/ BrokerAck

SpecBatch == InitBatch /\ [][NextBatch]_vars

\* test_compression on a new tester, the workload file holding one record of up
\* to MaxOriginalSize bytes.
InitComp ==
    /\ Constructed
    /\ pc = "comp_read"
    /\ existing = TopicNames
    /\ file \in {NoFile, Workload(<<>>)}
                   \cup {Workload(<<size>>) : size \in 1..MaxOriginalSize}
    /\ ackDelay \in [1..Len(file.lines) -> 0..1]
    /\ idleFlush \in 0..1

NextComp ==
    \/ CompRead \/ CompOpen \/ CompSend \/ CompGet \/ CompTimeout
    \/ CompReduce \/ CompClose \/ CompStore \/ BrokerAck

SpecComp == InitComp /\ [][NextComp]_vars

(***************************************************************************)
(* Properties.                                                             *)
(***************************************************************************)
BatchPcs ==
    {"batch_open", "batch_read", "batch_send", "batch_get", "batch_close",
     "batch_store"}

CompPcs ==
    {"comp_read", "comp_open", "comp_send", "comp_get", "comp_close", "comp_store"}

PartPcs == {"part_read", "part_open", "part_send", "part_close", "part_store"}

\* The number of configurations of the sweep that position `at` belongs to.
ConfigCount(at) ==
    IF at \in BatchPcs THEN Len(BatchConfigs)
    ELSE IF at \in CompPcs THEN Len(Algorithms)
    ELSE Len(PartitionCounts)

\* C1: the session of a configuration is closed on every exit path of its run:
\* at most one session is open at any time, and none is open when the next
\* configuration begins or when the invocation has ended, with or without an error.
C1_SessionClosedOnEveryExit ==
    /\ Cardinality(producers) <= 1
    /\ pc \in {"batch_open", "comp_open", "part_open", "failed", "done"}
          => producers = {}

\* C2: an acknowledgment timeout in configuration i does not abort the sweep: the
\* invocation does not end on it while configurations i+1..n are still to run.
C2_TimeoutDoesNotAbortSweep ==
    (pc = "failed" /\ exc.type = "KafkaTimeoutError")
        => cfg = ConfigCount(exc.at)

ScalingFactorsOf(rs) ==
    /\ rs # <<>> => rs[1].scaling_factor = <<1, 1>>
    /\ \A i \in 2..Len(rs) :
          /\ rs[1].throughput[1] # 0
          /\ RatEq(rs[i].scaling_factor, RatDiv(rs[i].throughput, rs[1].throughput))

\* C5: in the partitioning sweep the first run reports a scaling factor of
\* exactly 1.0, the baseline is the first run's throughput and stays it, and every
\* later run i reports throughput_i / baseline.
C5_ScalingFactor ==
    /\ pc \in PartPcs \ {"part_read"} =>
          /\ results # <<>> <=> baseline_throughput # NoValue
          /\ results # <<>> => baseline_throughput = results[1].throughput
          /\ ScalingFactorsOf(results)
    /\ "partitioning" \in DOMAIN test_results =>
          ScalingFactorsOf(test_results["partitioning"])

\* Three runs, the later ones faster and slower than the first.
C5_Witness ==
    /\ pc = "part_store"
    /\ Len(results) = 3
    /\ ~RatLe(results[2].throughput, results[1].throughput)
    /\ ~RatLe(results[1].throughput, results[3].throughput)

\* Value v is the one at index idx, counted from 0, of lat in ascending order.
IsAtRank(lat, v, idx) ==
    /\ \E j \in 1..Len(lat) : lat[j] = v
    /\ Cardinality({j \in 1..Len(lat) : lat[j] < v}) <= idx
    /\ idx < Cardinality({j \in 1..Len(lat) : lat[j] <= v})

\* idx = floor(pct / 100 * n)
IsFloorOfShare(idx, pct, n) == idx * 100 <= pct * n /\ pct * n < (idx + 1) * 100

CompressionBounds(r, algo, size) ==
    LET c == r.compressed_size_mb[1]
        ratio == r.compression_ratio
    IN /\ size >= 1
       /\ r.original_size_mb[1] = size
       /\ ratio[2] > 0
       /\ 0 <= ratio[1] /\ ratio[1] <= 100 * ratio[2]
       /\ ratio[1] > 0 => c <= size
       /\ algo = "none" => c = size /\ ratio = <<0, 1>>
       /\ algo # "none" => RatEq(ratio, <<(size - c) * 100, size>>)

\* C7 as stated: the bounds, and compressed_size is the integer part of
\* original_size times 0.40, 0.35, 0.25.
C7_CompressedSizeIsTruncatedProduct ==
    \A i \in 1..Len(results) :
        LET algo == results[i].algorithm
            c == results[i].compressed_size_mb[1]
        IN /\ CompressionBounds(results[i], algo, original_size)
           /\ algo = "snappy" => IsFloorOfShare(c, 40, original_size)
           /\ algo = "lz4" => IsFloorOfShare(c, 35, original_size)
           /\ algo = "zstd" => IsFloorOfShare(c, 25, original_size)

\* C7 as amended: the bounds; compressed_size is the integer part of original_size
\* times 0.40 (snappy) and 0.25 (zstd); for lz4 it is int() of the double product
\* original_size * 0.35, which is the integer part of original_size times 0.35
\* or one byte less.
C7_CompressedSizeIsTruncatedDouble ==
    \A i \in 1..Len(results) :
        LET algo == results[i].algorithm
            c == results[i].compressed_size_mb[1]
        IN /\ CompressionBounds(results[i], algo, original_size)
           /\ algo = "snappy" => IsFloorOfShare(c, 40, original_size)
           /\ algo = "lz4" => \/ IsFloorOfShare(c, 35, original_size)
                              \/ IsFloorOfShare(c + 1, 35, original_size)
           /\ algo = "zstd" => IsFloorOfShare(c, 25, original_size)

\* All four codecs have run on a sample of 180 bytes.
C7_Witness ==
    /\ pc = "comp_store"
    /\ original_size = 180
    /\ Len(results) = 4
    /\ results[3].compressed_size_mb[1] = 62

\* C8: create_topics attempts every topic of its list in order, whatever exists
\* already: each topic attempted exists afterwards, a call that returns has
\* attempted all of them, a call that follows one that returned finds every topic
\* existing and returns too, and only an error other than AlreadyExists is fatal.
C8_ProvisioningIdempotent ==
    /\ pc \in {"create_topics", "provisioned"} =>
          /\ Len(outcomes) = tIdx - 1
          /\ \A i \in 1..(tIdx - 1) : Topics[i].name \in existing
    /\ pc = "provisioned" =>
          /\ Len(outcomes) = Len(Topics)
          /\ TopicNames \subseteq existing
    /\ calls >= 1 => TopicNames \subseteq existing
    /\ ((calls >= 1 /\ pc = "create_topics") \/ calls >= 2) =>
          \A i \in 1..Len(outcomes) : outcomes[i] = "AlreadyExists"
    /\ pc = "crashed" => exc.type = "KafkaError"

\* The second call has returned, having found every topic existing.
C8_Witness ==
    /\ pc = "provisioned"
    /\ calls = 2
    /\ Len(outcomes) = Len(Topics)
    /\ \A i \in 1..Len(outcomes) : outcomes[i] = "AlreadyExists"

\* C9: the reduction of a run with no record or with a zero duration raises no
\* division-by-zero and no empty-mean error.
C9_ReductionNeverRaises ==
    exc.type \notin {"ZeroDivisionError", "StatisticsError"}

Dimensions == <<"batch_linger", "compression", "partitioning">>

\* The position of the sweep of `at` in the order main runs them.
DimensionIndex(at) ==
    IF at \in BatchPcs THEN 1 ELSE IF at \in CompPcs THEN 2 ELSE 3

\* The configuration a result reports.
ConfigOf(d, r) ==
    IF d = 1 THEN <<r.batch_size, r.linger_ms>>
    ELSE IF d = 2 THEN r.algorithm
    ELSE r.partitions

ConfigsOf(d) ==
    IF d = 1 THEN BatchConfigs ELSE IF d = 2 THEN Algorithms ELSE PartitionCounts

StoredDimensions == {d \in 1..3 : Dimensions[d] \in DOMAIN test_results}

C10_Stored ==
    /\ \A d \in StoredDimensions :
          /\ Len(test_results[Dimensions[d]]) = Len(ConfigsOf(d))
          /\ \A i \in 1..Len(ConfigsOf(d)) :
                ConfigOf(d, test_results[Dimensions[d]][i]) = ConfigsOf(d)[i]
    /\ pc \in BatchPcs \cup CompPcs \cup PartPcs =>
          StoredDimensions = 1..(DimensionIndex(pc) - 1)
    /\ pc = "failed" =>
          /\ StoredDimensions = 1..(DimensionIndex(exc.at) - 1)
          /\ ~reportCalled
    /\ reportCalled => pc = "done" /\ StoredDimensions = 1..3

\* C10: test_results gets a sweep's entry only once its last configuration has
\* completed, one result per configuration in order; when a run raises, its sweep
\* and the later ones have no entry, generate_report is not invoked, nothing more
\* runs; and an entry, once stored, is never changed.
C10_ResultStore ==
    /\ C10_Stored
    /\ [][/\ C10_Stored'
          /\ \A d \in DOMAIN test_results :
                d \in DOMAIN test_results' /\ test_results'[d] = test_results[d]
          /\ pc = "failed" => pc' = "failed"]_vars

\* A run of the compression sweep raised after the batch/linger sweep was stored.
C10_Witness ==
    /\ pc = "failed"
    /\ exc.at = "comp_get"
    /\ cfg = 2
    /\ DOMAIN test_results = {"batch_linger"}

====
